---------------------------- MODULE Spec2Model ----------------------------
(***************************************************************************)
(* A state-machine model of the job helpers of runpod.serverless:         *)
(*   get_job, run_job, run_job_generator  (modules/rp_job.py)             *)
(*                                                                         *)
(* Python values are modelled as records [kind, s, d]: kind is the Python *)
(* type, s the literal of a non-dict value, d the entries of a dict (or   *)
(* the fields carried by a JSON text).  Exceptions are records            *)
(* [type, msg, base]; every exception modelled here derives from          *)
(* Exception (KeyboardInterrupt, SystemExit and task cancellation derive  *)
(* from BaseException only and are not handler failures).                 *)
(***************************************************************************)
EXTENDS Naturals, Sequences, FiniteSets, TLC

VARIABLES
    \* ---- run_job ----
    env,            \* os.environ, restricted to the two names run_job reads
    rj_pc,          \* position of the run_job call: idle, await, done
    handler_return, \* what handler(job) did: "raise", "value", "awaitable"
    resolved,       \* the handler's resolved value as the handler produced it
    job_output,     \* run_job's local job_output (after the pops of lines 121-122)
    size_check,     \* outcome of check_return_size: unset, ok, raised
    err,            \* the exception caught by line 142 (NoErr when none)
    run_result,     \* run_job's local run_result
    rj_outcome,     \* how the call ended: running, returned, raised
    \* ---- get_job (one entry per concurrent call) ----
    job_list,       \* the ids held by the process-wide Jobs() tracker
    held,           \* the ids of the Jobs returned to callers and not yet removed
    gj_pc,          \* position of the call: idle, poll, await_get, await_json, done
    retry,          \* the call's retry argument
    polls,          \* requests the call has issued so far
    request,        \* job_in_progress of the request in flight ("" when none)
    sent,           \* job_in_progress of every request the call has issued
    response,       \* what the call's latest request came back with
    next_job,       \* the call's local next_job
    gj_outcome,     \* how the call ended: running, returned, raised
    gj_return,      \* the value the call returned (NoValue when none)
    \* ---- run_job_generator ----
    gen_pc,         \* position of the generator: idle, created, at_output_yield,
                    \* await_item, at_error_yield, finished
    gen_kind,       \* the handler: "gen" or "asyncgen" (inspect.isasyncgenfunction)
    produced,       \* the partial values the producer has yielded so far
    producer_end,   \* how the producer ended: none, call_raised, raised, exhausted
    emitted,        \* the envelopes handed to the consumer so far
    finished_log,   \* how many times line 181 logged 'Finished'
    gen_outcome,    \* how the iteration ended: running, exhausted, raised
    asked,          \* times the consumer has asked the generator for an envelope
    \* ---- clean (utils/rp_cleanup.py) ----
    fs,             \* the working directory: each path absent, a file or a dir
    cl_pc,          \* calls of clean made on this filesystem: idle, once, twice
    cl_folders,     \* the folder_list argument of those calls
    cl_start,       \* the filesystem before the first call
    cl_first,       \* the filesystem after the first call
    cl_outcome      \* how the latest call ended: none, returned, raised

rjVars == <<env, rj_pc, handler_return, resolved, job_output, size_check,
            err, run_result, rj_outcome>>

gjVars == <<job_list, held, gj_pc, retry, polls, request, sent, response, next_job,
            gj_outcome, gj_return>>

genVars == <<gen_pc, gen_kind, produced, producer_end, emitted, finished_log, asked,
             gen_outcome>>

clVars == <<fs, cl_pc, cl_folders, cl_start, cl_first, cl_outcome>>

vars == <<rjVars, gjVars, genVars, clVars>>

----------------------------------------------------------------------------
(* Python values *)

EmptyMap == [k \in {} |-> 0]

Val(kind, s) == [kind |-> kind, s |-> s, d |-> EmptyMap]

PyDict(d) == [kind |-> "dict", s |-> "", d |-> d]

PyNone == Val("NoneType", "None")

PyTrue == Val("bool", "True")

PyFalse == Val("bool", "False")

PyStr(s) == Val("str", s)

NoValue == Val("unset", "")

\* bool(v)
Truthy(v) ==
    CASE v.kind = "NoneType" -> FALSE
      [] v.kind = "bool"     -> v.s = "True"
      [] v.kind = "str"      -> v.s # ""
      [] v.kind = "int"      -> v.s # "0"
      [] v.kind = "list"     -> v.s # "[]"
      [] v.kind = "dict"     -> DOMAIN v.d # {}
      [] OTHER               -> TRUE

\* isinstance(v, dict)
IsDict(v) == v.kind = "dict"

\* d.get(k, None) on the entries of a dict
DictGet(d, k) == IF k \in DOMAIN d THEN d[k] ELSE PyNone

\* the entries left by d.pop(k, None)
DictWithout(d, k) == [x \in DOMAIN d \ {k} |-> d[x]]

\* v == {}
EqEmptyDict(v) == v.kind = "dict" /\ DOMAIN v.d = {}

\* json.dumps of a dict of strings: a str carrying the JSON text of its fields
JsonDumps(d) == [kind |-> "str", s |-> "json", d |-> d]

\* json.loads of such a text
JsonLoads(v) == PyDict(v.d)

----------------------------------------------------------------------------
(* Exceptions *)

Exc(type, msg) == [type |-> type, msg |-> msg, base |-> "Exception"]

NoErr == [type |-> "", msg |-> "", base |-> ""]

\* what a handler (or an awaited handler result) may raise
HandlerExceptions == {Exc("ValueError", "bad input"), Exc("KeyError", "'k'")}

\* what check_return_size raises when the envelope is too large
SizeException == Exc("SizeLimitExceeded", "return body too large")


----------------------------------------------------------------------------
(* run_job *)

\* the initial value of run_result, line 112
Placeholder == ("error" :> PyStr("No output from handler."))

\* non-dict values a handler may return
Atoms ==
    {PyNone, PyTrue, PyFalse, PyStr(""), PyStr("x"), Val("int", "0"),
     Val("int", "1"), Val("list", "[]"), Val("list", "[1]")}

\* values of the entries of a dict a handler may return
EntryValues == {PyNone, PyFalse, PyTrue, PyStr(""), PyStr("x"), Val("int", "1")}

HandlerKeys == {"error", "refresh_worker", "foo"}

HandlerDicts == {PyDict(d) : d \in UNION {[S -> EntryValues] : S \in SUBSET HandlerKeys}}

\* a handler may return the very text of line 112 as its own error
HandlerValues == Atoms \cup HandlerDicts \cup {PyDict(Placeholder)}

\* os.environ as far as run_job reads it
Environments ==
    {EmptyMap,
     ("RUNPOD_POD_HOSTNAME" :> PyStr("host-1")) @@ ("RUNPOD_POD_ID" :> PyStr("pod-1"))}

\* os.environ.get(name, "unknown")
EnvGet(e, name) == IF name \in DOMAIN e THEN e[name] ELSE PyStr("unknown")

\* a variant of line 126 that tests presence: if error_msg is not None
ErrorIsSetWhenNotNone(error_msg) == error_msg # PyNone

\* line 126: if error_msg
ErrorIsSet(error_msg) == Truthy(error_msg)

\* a variant of line 128 that tests presence: if refresh_worker is not None
StopPodIsSetWhenNotNone(refresh_worker) == refresh_worker # PyNone

\* line 128: if refresh_worker
StopPodIsSet(refresh_worker) == Truthy(refresh_worker)

\* line 137: run_result.get("output") == {}
OutputIsEmpty(result) == EqEmptyDict(DictGet(result, "output"))

\* lines 121-122: the handler's dict after the two pops (the same object
\* becomes the output)
AfterPops(v) ==
    IF IsDict(v)
    THEN PyDict(DictWithout(DictWithout(v.d, "error"), "refresh_worker"))
    ELSE v

\* lines 120-138: the candidate envelope built from the resolved value
Normalize(v) ==
    LET error_msg      == IF IsDict(v) THEN DictGet(v.d, "error") ELSE PyNone
        refresh_worker == IF IsDict(v) THEN DictGet(v.d, "refresh_worker") ELSE PyNone
        r0 == ("output" :> AfterPops(v))
        r1 == IF IsDict(v) /\ ErrorIsSet(error_msg)
              THEN r0 @@ ("error" :> error_msg) ELSE r0
        r2 == IF IsDict(v) /\ StopPodIsSet(refresh_worker)
              THEN r1 @@ ("stopPod" :> PyTrue) ELSE r1
    IN  IF OutputIsEmpty(r2) THEN DictWithout(r2, "output") ELSE r2

\* lines 143-150: the diagnostic record
ErrorInfo(e, environ) ==
    [error_type      |-> Val("type", e.type),
     error_message   |-> PyStr(e.msg),
     error_traceback |-> Val("traceback", e.type),
     hostname        |-> EnvGet(environ, "RUNPOD_POD_HOSTNAME"),
     worker_id       |-> EnvGet(environ, "RUNPOD_POD_ID"),
     runpod_version  |-> Val("version", "runpod_version")]

\* a variant of line 154 that leaves the local as it is
AssignErrorKeep(current, text) == current

\* a variant of line 154 that updates the local: run_result["error"] = text
AssignErrorInPlace(current, text) == ("error" :> text) @@ current

\* line 154: run_result = {"error": text} replaces the local, whatever it held
AssignError(current, text) == ("error" :> text)

\* a variant of line 142 with a narrower clause: except ValueError
ExceptCatchesValueError(e) == e.type = "ValueError"

\* line 142: except Exception
ExceptCatches(e) == e.base = "Exception"

\* lines 142-159: an exception e raised inside the try block while the local
\* run_result holds current
Capture(e, current) ==
    /\ err' = e
    /\ IF ExceptCatches(e)
       THEN /\ run_result' = AssignError(current, JsonDumps(ErrorInfo(e, env)))
            /\ rj_outcome' = "returned"
       ELSE /\ run_result' = current
            /\ rj_outcome' = "raised"
    /\ rj_pc' = "done"

\* lines 118-140 and 156-159: the resolved value v is normalized and the
\* size check sizeOk decides between the return and the except clause
Complete(v, sizeOk) ==
    /\ resolved' = v
    /\ job_output' = AfterPops(v)
    /\ IF sizeOk
       THEN /\ size_check' = "ok"
            /\ run_result' = Normalize(v)
            /\ err' = NoErr
            /\ rj_outcome' = "returned"
            /\ rj_pc' = "done"
       ELSE /\ size_check' = "raised"
            /\ Capture(SizeException, Normalize(v))

\* a call of run_job may start when none is in progress
RunJobMayStart == rj_pc = "idle"

\* lines 111-115, 142-159: handler(job) raises
RunJobHandlerRaises ==
    /\ RunJobMayStart
    /\ \E e \in HandlerExceptions :
          /\ handler_return' = "raise"
          /\ resolved' = NoValue
          /\ job_output' = NoValue
          /\ size_check' = "unset"
          /\ Capture(e, Placeholder)
    /\ UNCHANGED <<env, gjVars, genVars, clVars>>

\* lines 111-159: handler(job) returns a value that is not awaitable
RunJobHandlerReturns ==
    /\ RunJobMayStart
    /\ \E v \in HandlerValues, sizeOk \in BOOLEAN :
          /\ handler_return' = "value"
          /\ Complete(v, sizeOk)
    /\ UNCHANGED <<env, gjVars, genVars, clVars>>

\* lines 111-116: handler(job) returns an awaitable; run_job suspends
RunJobHandlerReturnsAwaitable ==
    /\ RunJobMayStart
    /\ handler_return' = "awaitable"
    /\ resolved' = NoValue
    /\ job_output' = NoValue
    /\ size_check' = "unset"
    /\ err' = NoErr
    /\ run_result' = Placeholder
    /\ rj_outcome' = "running"
    /\ rj_pc' = "await"
    /\ UNCHANGED <<env, gjVars, genVars, clVars>>

\* lines 116-159: the awaited handler result resolves
RunJobAwaitResolves ==
    /\ rj_pc = "await"
    /\ \E v \in HandlerValues, sizeOk \in BOOLEAN : Complete(v, sizeOk)
    /\ UNCHANGED <<env, handler_return, gjVars, genVars, clVars>>

\* lines 116, 142-159: the awaited handler result fails
RunJobAwaitFails ==
    /\ rj_pc = "await"
    /\ \E e \in HandlerExceptions : Capture(e, Placeholder)
    /\ UNCHANGED <<env, handler_return, resolved, job_output, size_check, gjVars, genVars, clVars>>

\* line 159: the caller has taken the result; the call's locals are gone
RunJobReturned ==
    /\ rj_pc = "done"
    /\ rj_pc' = "idle"
    /\ handler_return' = "none"
    /\ resolved' = NoValue
    /\ job_output' = NoValue
    /\ size_check' = "unset"
    /\ err' = NoErr
    /\ run_result' = Placeholder
    /\ rj_outcome' = "running"
    /\ UNCHANGED <<env, gjVars, genVars, clVars>>

RunJobNext ==
    \/ RunJobHandlerRaises
    \/ RunJobHandlerReturns
    \/ RunJobHandlerReturnsAwaitable
    \/ RunJobAwaitResolves
    \/ RunJobAwaitFails
    \/ RunJobReturned

----------------------------------------------------------------------------
(* Properties of run_job *)

EnvelopeKeys == {"output", "error", "stopPod"}

DiagnosticFields ==
    {"error_type", "error_message", "error_traceback", "hostname", "worker_id",
     "runpod_version"}

RunJobDone == rj_pc = "done"

\* the envelope's error is a JSON text whose record has exactly the six
\* diagnostic fields
HasDiagnosticError(result) ==
    /\ "error" \in DOMAIN result
    /\ result["error"].kind = "str"
    /\ result["error"].s = "json"
    /\ DOMAIN JsonLoads(result["error"]).d = DiagnosticFields

\* the entries of a handler's dict other than error and refresh_worker
Remaining(v) == [k \in DOMAIN v.d \ {"error", "refresh_worker"} |-> v.d[k]]

C7_AsStated ==
    RunJobDone =>
        /\ (IsDict(resolved) /\ size_check = "ok" =>
               /\ "output" \in DOMAIN run_result
               /\ run_result["output"] = PyDict(Remaining(resolved))
               /\ ("stopPod" \in DOMAIN run_result
                      <=> Truthy(DictGet(resolved.d, "refresh_worker"))))
        /\ ("stopPod" \in DOMAIN run_result => run_result["stopPod"] = PyTrue)

\* C7 amended: when the handler's value is a dict and the size check passes,
\* output is that dict without error and refresh_worker, the output key
\* being omitted when nothing remains, and stopPod = true exactly when
\* refresh_worker was truthy; in every result stopPod is absent or true.
C7_DictNormalized ==
    RunJobDone =>
        /\ (IsDict(resolved) /\ size_check = "ok" =>
               /\ IF DOMAIN Remaining(resolved) = {}
                  THEN "output" \notin DOMAIN run_result
                  ELSE /\ "output" \in DOMAIN run_result
                       /\ run_result["output"] = PyDict(Remaining(resolved))
               /\ ("stopPod" \in DOMAIN run_result
                      <=> Truthy(DictGet(resolved.d, "refresh_worker"))))
        /\ ("stopPod" \in DOMAIN run_result => run_result["stopPod"] = PyTrue)

\* C7 witness: {"foo": 1, "refresh_worker": true} gave
\* {"output": {"foo": 1}, "stopPod": true}
C7_Witness ==
    /\ RunJobDone
    /\ resolved = PyDict(("foo" :> Val("int", "1")) @@ ("refresh_worker" :> PyTrue))
    /\ run_result = ("output" :> PyDict("foo" :> Val("int", "1"))) @@ ("stopPod" :> PyTrue)

\* C8 as stated, taken for the calls whose size check passes: whenever the
\* handler's dict has an error entry, whatever its value, the result's
\* error is that value and output does not hold it; {"error": "x"} gives
\* exactly {"error": "x"}.
C8_AsStated ==
    RunJobDone /\ IsDict(resolved) /\ "error" \in DOMAIN resolved.d
               /\ size_check = "ok" =>
        /\ "error" \in DOMAIN run_result
        /\ run_result["error"] = resolved.d["error"]
        /\ ("output" \in DOMAIN run_result =>
               "error" \notin DOMAIN run_result["output"].d)
        /\ (resolved = PyDict("error" :> PyStr("x")) =>
               run_result = ("error" :> PyStr("x")))

\* C8 amended: when the handler's dict has an error entry and the size check
\* passes, the result's error is that value if it is truthy and the result
\* has no error key if it is falsy; output never holds the entry;
\* {"error": "x"} gives exactly {"error": "x"}.
C8_ErrorEntry ==
    RunJobDone /\ IsDict(resolved) /\ "error" \in DOMAIN resolved.d
               /\ size_check = "ok" =>
        /\ IF Truthy(resolved.d["error"])
           THEN /\ "error" \in DOMAIN run_result
                /\ run_result["error"] = resolved.d["error"]
           ELSE "error" \notin DOMAIN run_result
        /\ ("output" \in DOMAIN run_result =>
               "error" \notin DOMAIN run_result["output"].d)
        /\ (resolved = PyDict("error" :> PyStr("x")) =>
               run_result = ("error" :> PyStr("x")))

\* C8 witness: {"error": "x"} gave exactly {"error": "x"}
C8_Witness ==
    /\ RunJobDone
    /\ resolved = PyDict("error" :> PyStr("x"))
    /\ size_check = "ok"
    /\ run_result = ("error" :> PyStr("x"))

\* a value that is empty: {}, None, or the empty list
IsEmptyValue(v) == EqEmptyDict(v) \/ v = PyNone \/ v = Val("list", "[]")

\* C9: when the handler's resolved value is empty ({}, None, or another
\* value serializing to an empty structure) and the size check passes, the
\* result has neither an output key nor an error key.
C9_EmptyValueDropped ==
    RunJobDone /\ size_check = "ok" /\ IsEmptyValue(resolved) =>
        /\ "output" \notin DOMAIN run_result
        /\ "error" \notin DOMAIN run_result

\* C10: when the size check fails, run_job does not raise and returns a
\* result holding only the serialized diagnostic record of that failure, as
\* for a handler exception: no output.
C10_SizeFailureCaptured ==
    RunJobDone /\ size_check = "raised" =>
        /\ rj_outcome = "returned"
        /\ HasDiagnosticError(run_result)
        /\ JsonLoads(run_result["error"]).d["error_type"] = Val("type", SizeException.type)
        /\ "output" \notin DOMAIN run_result

\* C10 witness: a dict with output entries was normalized, the size check
\* failed, and the call returned an error envelope
C10_Witness ==
    /\ RunJobDone
    /\ size_check = "raised"
    /\ IsDict(resolved)
    /\ "foo" \in DOMAIN resolved.d
    /\ rj_outcome = "returned"
    /\ "error" \in DOMAIN run_result

\* C19: when run_job captures an exception, raised by the handler, by the
\* awaited result or by the size check, the returned envelope holds the error
\* key only, with the serialized diagnostic record: no output and no stopPod,
\* whatever the handler had returned.
C19_ErrorOnly ==
    RunJobDone /\ err # NoErr =>
        /\ rj_outcome = "returned"
        /\ DOMAIN run_result = {"error"}
        /\ HasDiagnosticError(run_result)

\* C19 witness: the handler returned a dict with an entry, an error and a
\* truthy refresh_worker; the size check failed; the envelope holds error only
C19_Witness ==
    /\ RunJobDone
    /\ size_check = "raised"
    /\ IsDict(resolved)
    /\ DOMAIN resolved.d = {"foo", "error", "refresh_worker"}
    /\ Truthy(resolved.d["refresh_worker"])
    /\ Truthy(resolved.d["error"])
    /\ "stopPod" \in DOMAIN Normalize(resolved)
    /\ DOMAIN run_result = {"error"}

\* C20: the placeholder of line 112 is never what run_job returns: the
\* returned envelope is the normalized handler value when nothing was raised
\* and the captured-exception envelope otherwise; it has the placeholder's
\* content only when the handler's own value normalizes to it.
C20_PlaceholderOverwritten ==
    RunJobDone /\ rj_outcome = "returned" =>
        /\ IF err = NoErr
           THEN resolved # NoValue /\ run_result = Normalize(resolved)
           ELSE run_result = ("error" :> JsonDumps(ErrorInfo(err, env)))
        /\ (run_result = Placeholder => err = NoErr /\ resolved = PyDict(Placeholder))

\* C20 witness: run_job held the placeholder while it awaited the handler's
\* result, and returned the envelope of the resolved value
C20_Witness ==
    /\ RunJobDone
    /\ handler_return = "awaitable"
    /\ err = NoErr
    /\ resolved = PyStr("x")
    /\ run_result = ("output" :> PyStr("x"))

----------------------------------------------------------------------------
(* clean *)

\* the most entries of folder_list in the model
MaxFolders == 2

\* the paths clean always removes
FixedFolders == {"input_objects", "output_objects"}

OutputZip == "output.zip"

\* the names a caller may pass in folder_list
FolderNames == {"tmp_a", "tmp_b"}

\* the paths of the working directory: the designated ones and one other
Paths == FixedFolders \cup {OutputZip} \cup FolderNames \cup {"keep"}

\* a path is absent, a regular file, or a directory (with its contents)
Kinds == {"absent", "file", "dir"}

Filesystems == [Paths -> Kinds]

NoFiles == [p \in Paths |-> "absent"]

FolderLists == UNION {[1..n -> FolderNames] : n \in 0..MaxFolders}

\* shutil.rmtree(path, ignore_errors=True): a directory goes with its
\* contents; on an absent path or a regular file the error is ignored and
\* nothing changes
Rmtree(files, path) ==
    IF files[path] = "dir" THEN [files EXCEPT ![path] = "absent"] ELSE files

\* a variant of line 18 without the test: os.remove is always called
OutputZipExistsAlways(files) == TRUE

\* line 18: os.path.exists('output.zip')
OutputZipExists(files) == files[OutputZip] # "absent"

\* line 19: os.remove raises on a directory (IsADirectoryError) and on an
\* absent path (FileNotFoundError)
RemoveRaises(files) == files[OutputZip] # "file"

\* lines 21-22: rmtree over the first n entries of folder_list
RECURSIVE RmtreeAll(_, _, _)
RmtreeAll(files, folder_list, n) ==
    IF n = 0 THEN files
    ELSE Rmtree(RmtreeAll(files, folder_list, n - 1), folder_list[n])

\* lines 15-22: the filesystem clean leaves and whether it raised
CleanResult(files, folder_list) ==
    LET f1 == Rmtree(files, "input_objects")
        f2 == Rmtree(f1, "output_objects")
    IN  IF OutputZipExists(f2)
        THEN IF RemoveRaises(f2)
             THEN [files |-> f2, raised |-> TRUE]
             ELSE [files |-> RmtreeAll([f2 EXCEPT ![OutputZip] = "absent"],
                                       folder_list, Len(folder_list)),
                   raised |-> FALSE]
        ELSE [files |-> RmtreeAll(f2, folder_list, Len(folder_list)),
              raised |-> FALSE]

\* lines 11-22: clean(folder_list) is called
CleanCall ==
    /\ cl_pc = "idle"
    /\ \E folder_list \in FolderLists :
          /\ cl_folders' = folder_list
          /\ fs' = CleanResult(fs, folder_list).files
          /\ cl_outcome' = IF CleanResult(fs, folder_list).raised
                           THEN "raised" ELSE "returned"
    /\ cl_start' = fs
    /\ cl_first' = fs'
    /\ cl_pc' = "once"
    /\ UNCHANGED <<rjVars, gjVars, genVars>>

\* lines 11-22: clean is called a second time with the same folder_list
CleanAgain ==
    /\ cl_pc = "once"
    /\ fs' = CleanResult(fs, cl_folders).files
    /\ cl_outcome' = IF CleanResult(fs, cl_folders).raised
                     THEN "raised" ELSE "returned"
    /\ cl_pc' = "twice"
    /\ UNCHANGED <<cl_folders, cl_start, cl_first, rjVars, gjVars, genVars>>

CleanNext ==
    \/ CleanCall
    \/ CleanAgain

----------------------------------------------------------------------------
(* Properties of clean *)

\* the paths a call of clean is to remove
Designated(folder_list) ==
    FixedFolders \cup {OutputZip} \cup {folder_list[i] : i \in 1..Len(folder_list)}

\* after the calls made so far: no error, no designated path left, every
\* other path as before the first call, and the second call changed nothing
CleanedUp ==
    /\ cl_outcome = "returned"
    /\ \A p \in Designated(cl_folders) : fs[p] = "absent"
    /\ \A p \in Paths \ Designated(cl_folders) : fs[p] = cl_start[p]
    /\ (cl_pc = "twice" => fs = cl_first)

\* C11 as stated: from any state of the designated paths, each absent or
\* present, clean completes without error, leaves none of them, leaves every
\* other path unchanged, and a second call changes nothing.
C11_AsStated == cl_pc # "idle" => CleanedUp

\* every folder to remove is absent or a directory, and output.zip is absent
\* or a regular file
ExpectedKinds(files, folder_list) ==
    /\ \A p \in Designated(folder_list) \ {OutputZip} : files[p] \in {"absent", "dir"}
    /\ files[OutputZip] \in {"absent", "file"}

\* C11 amended: from any state in which input_objects, output_objects and
\* every entry of folder_list is absent or a directory and output.zip is
\* absent or a regular file, clean completes without error, leaves none of
\* them, leaves every other path unchanged, and a second call changes
\* nothing.
C11_CleanIdempotent ==
    cl_pc # "idle" /\ ExpectedKinds(cl_start, cl_folders) => CleanedUp

\* C11 witness: clean ran twice from a state with a directory, a file
\* output.zip, a listed directory, a listed absent path and another file
C11_Witness ==
    /\ cl_pc = "twice"
    /\ cl_folders = <<"tmp_a", "tmp_b">>
    /\ cl_start["input_objects"] = "dir"
    /\ cl_start["output_objects"] = "absent"
    /\ cl_start[OutputZip] = "file"
    /\ cl_start["tmp_a"] = "dir"
    /\ cl_start["tmp_b"] = "absent"
    /\ cl_start["keep"] = "file"
    /\ fs = [p \in Paths |-> IF p = "keep" THEN "file" ELSE "absent"]

----------------------------------------------------------------------------
(* get_job *)

\* the concurrent callers of get_job (cooperative tasks of one event loop)
Tasks == {"t1", "t2"}

\* the most requests one call issues in the model
MaxPolls == 2

\* Jobs.add_job(job_id)
AddJob(jobs, job_id) == jobs \cup {job_id}

\* Jobs.remove_job(job_id)
RemoveJob(jobs, job_id) == jobs \ {job_id}

\* the truth value of Jobs.get_job_list(): some job is tracked
GetJobList(jobs) == jobs # {}

\* a variant of line 35 that never reports a job in progress
JobInProgressNever(jobs) == "0"

\* line 35: the job_in_progress parameter of the poll URL
JobInProgress(jobs) == IF GetJobList(jobs) THEN "1" ELSE "0"

\* what a request comes back with: nothing yet, an exception raised by
\* session.get, a status, an exception raised by response.json(), a body
Response(kind, status, body) == [kind |-> kind, status |-> status, body |-> body]

NoResponse == Response("none", 0, NoValue)

\* statuses other than 200 the queue may answer with
NoJobStatuses == {204, 400, 404, 500}

JobIds == {PyStr("a"), PyStr("b")}

JobInput == PyDict("prompt" :> PyStr("x"))

\* bodies holding both fields, neither null
ValidBodies == {PyDict(("id" :> i) @@ ("input" :> JobInput)) : i \in JobIds}

\* bodies that are records with id or input missing or null
MalformedBodies ==
    {PyDict(d) : d \in
        {EmptyMap,
         ("input" :> JobInput),
         ("id" :> PyStr("a")),
         ("id" :> PyNone) @@ ("input" :> JobInput),
         ("id" :> PyStr("a")) @@ ("input" :> PyNone),
         ("id" :> PyNone) @@ ("input" :> PyNone)}}

\* bodies that parse to something other than a record
NonRecordBodies == {Val("list", "[]"), Val("list", "[1]"), PyStr("abc"), Val("int", "1")}

Bodies == ValidBodies \cup MalformedBodies \cup NonRecordBodies \cup {PyNone}

\* a variant of line 79 that looks at the id only
FieldMissingIdOnly(body) == DictGet(body.d, "id") = PyNone

\* lines 76-79: None in [job_id, job_input]
FieldMissing(body) ==
    PyNone \in {DictGet(body.d, "id"), DictGet(body.d, "input")}

\* lines 72-90: next_job after the body was read and checked.  On a value
\* without .get line 76 raises AttributeError, which line 89 catches with
\* next_job still bound to the body.
Checked(body) ==
    IF IsDict(body)
    THEN IF FieldMissing(body) THEN PyNone ELSE body
    ELSE body

\* line 97: next_job['id'] raises TypeError unless next_job is a dict
SubscriptRaises(job) == ~IsDict(job)

\* a variant of lines 99-100 that overwrites the tracked set with the one id
TrackedOnlyThis(jobs, job) == {job.d["id"]}

\* a variant of lines 99-100 that tracks every known id with the job
TrackedEverything(jobs, job) == jobs \cup JobIds

\* a variant of lines 99-100 that returns the job without tracking it
TrackedNever(jobs, job) == jobs

\* lines 99-100: if next_job: job_list.add_job(next_job["id"])
Tracked(jobs, job) == IF Truthy(job) THEN AddJob(jobs, job.d["id"]) ELSE jobs

\* a variant of lines 56-58, 62-64, 68-70, 94-95 that never leaves the loop
NoJobLoops(t) ==
    /\ next_job' = [next_job EXCEPT ![t] = PyNone]
    /\ gj_pc' = [gj_pc EXCEPT ![t] = "poll"]
    /\ UNCHANGED <<gj_outcome, gj_return>>

\* a variant of lines 56-58, 62-64, 68-70, 94-95 that returns None whatever
\* retry is
NoJobReturnsNone(t) ==
    /\ next_job' = [next_job EXCEPT ![t] = PyNone]
    /\ gj_pc' = [gj_pc EXCEPT ![t] = "done"]
    /\ gj_outcome' = [gj_outcome EXCEPT ![t] = "returned"]
    /\ gj_return' = [gj_return EXCEPT ![t] = PyNone]

\* lines 56-58, 62-64, 68-70, 92-95: no job came of this request; return
\* None when retry is false, poll again otherwise
NoJob(t) ==
    /\ next_job' = [next_job EXCEPT ![t] = PyNone]
    /\ IF retry[t]
       THEN /\ gj_pc' = [gj_pc EXCEPT ![t] = "poll"]
            /\ UNCHANGED <<gj_outcome, gj_return>>
       ELSE /\ gj_pc' = [gj_pc EXCEPT ![t] = "done"]
            /\ gj_outcome' = [gj_outcome EXCEPT ![t] = "returned"]
            /\ gj_return' = [gj_return EXCEPT ![t] = PyNone]

\* line 39: a task calls get_job(session, retry=r); line 49
GetJobCall(t) ==
    /\ gj_pc[t] = "idle"
    /\ \E r \in BOOLEAN : retry' = [retry EXCEPT ![t] = r]
    /\ gj_pc' = [gj_pc EXCEPT ![t] = "poll"]
    /\ next_job' = [next_job EXCEPT ![t] = PyNone]
    /\ UNCHANGED <<job_list, held, polls, request, sent, response, gj_outcome, gj_return, rjVars, genVars, clVars>>

\* lines 51-53: the URL is built from the tracker and the request is issued
GetJobRequest(t) ==
    /\ gj_pc[t] = "poll"
    /\ polls[t] < MaxPolls
    /\ request' = [request EXCEPT ![t] = JobInProgress(job_list)]
    /\ sent' = [sent EXCEPT ![t] = Append(@, JobInProgress(job_list))]
    /\ polls' = [polls EXCEPT ![t] = @ + 1]
    /\ response' = [response EXCEPT ![t] = NoResponse]
    /\ gj_pc' = [gj_pc EXCEPT ![t] = "await_get"]
    /\ UNCHANGED <<job_list, held, retry, next_job, gj_outcome, gj_return, rjVars, genVars, clVars>>

\* lines 53, 89-95: session.get raises
GetJobTransportFails(t) ==
    /\ gj_pc[t] = "await_get"
    /\ response' = [response EXCEPT ![t] = Response("get_error", 0, NoValue)]
    /\ request' = [request EXCEPT ![t] = ""]
    /\ NoJob(t)
    /\ UNCHANGED <<job_list, held, retry, polls, sent, rjVars, genVars, clVars>>

\* lines 54-70: the response has a status other than 200
GetJobNoContent(t) ==
    /\ gj_pc[t] = "await_get"
    /\ \E status \in NoJobStatuses :
          response' = [response EXCEPT ![t] = Response("status", status, NoValue)]
    /\ request' = [request EXCEPT ![t] = ""]
    /\ NoJob(t)
    /\ UNCHANGED <<job_list, held, retry, polls, sent, rjVars, genVars, clVars>>

\* lines 54-72: the response has status 200; the call awaits response.json()
GetJobOk(t) ==
    /\ gj_pc[t] = "await_get"
    /\ response' = [response EXCEPT ![t] = Response("status", 200, NoValue)]
    /\ request' = [request EXCEPT ![t] = ""]
    /\ gj_pc' = [gj_pc EXCEPT ![t] = "await_json"]
    /\ UNCHANGED <<job_list, held, retry, polls, sent, next_job, gj_outcome, gj_return, rjVars, genVars, clVars>>

\* lines 72, 89-95: response.json() raises
GetJobJsonFails(t) ==
    /\ gj_pc[t] = "await_json"
    /\ response' = [response EXCEPT ![t] = Response("json_error", 200, NoValue)]
    /\ NoJob(t)
    /\ UNCHANGED <<job_list, held, retry, polls, request, sent, rjVars, genVars, clVars>>

\* lines 72-103: response.json() gives a body
GetJobBody(t) ==
    /\ gj_pc[t] = "await_json"
    /\ \E body \in Bodies :
          /\ response' = [response EXCEPT ![t] = Response("body", 200, body)]
          /\ IF Checked(body) = PyNone
             THEN /\ NoJob(t)
                  /\ UNCHANGED <<job_list, held>>
             ELSE /\ next_job' = [next_job EXCEPT ![t] = Checked(body)]
                  /\ gj_pc' = [gj_pc EXCEPT ![t] = "done"]
                  /\ IF SubscriptRaises(Checked(body))
                     THEN /\ gj_outcome' = [gj_outcome EXCEPT ![t] = "raised"]
                          /\ UNCHANGED <<gj_return, job_list, held>>
                     ELSE /\ job_list' = Tracked(job_list, Checked(body))
                          /\ held' = held \cup {Checked(body).d["id"]}
                          /\ gj_outcome' = [gj_outcome EXCEPT ![t] = "returned"]
                          /\ gj_return' = [gj_return EXCEPT ![t] = Checked(body)]
    /\ UNCHANGED <<retry, polls, request, sent, rjVars, genVars, clVars>>

\* line 57, 63, 69, 95, 103: the caller has taken the outcome of the call
GetJobReturned(t) ==
    /\ gj_pc[t] = "done"
    /\ gj_pc' = [gj_pc EXCEPT ![t] = "idle"]
    /\ retry' = [retry EXCEPT ![t] = TRUE]
    /\ polls' = [polls EXCEPT ![t] = 0]
    /\ response' = [response EXCEPT ![t] = NoResponse]
    /\ next_job' = [next_job EXCEPT ![t] = PyNone]
    /\ gj_outcome' = [gj_outcome EXCEPT ![t] = "running"]
    /\ gj_return' = [gj_return EXCEPT ![t] = NoValue]
    /\ sent' = [sent EXCEPT ![t] = <<>>]
    /\ UNCHANGED <<job_list, held, request, rjVars, genVars, clVars>>

\* the caller marks a job complete after submitting its result
ExternalRemove(job_id) ==
    /\ job_id \in job_list
    /\ job_list' = RemoveJob(job_list, job_id)
    /\ held' = held \ {job_id}
    /\ UNCHANGED <<gj_pc, retry, polls, request, sent, response, next_job,
                   gj_outcome, gj_return, rjVars, genVars, clVars>>

\* the state of the process before any call: no run_job call in progress,
\* an empty tracker, every task idle; the environment is one of environs
Start(environs, filesystems) ==
    /\ env \in environs
    /\ fs \in filesystems
    /\ cl_pc = "idle"
    /\ cl_folders = <<>>
    /\ cl_start = fs
    /\ cl_first = fs
    /\ cl_outcome = "none"
    /\ rj_pc = "idle"
    /\ handler_return = "none"
    /\ resolved = NoValue
    /\ job_output = NoValue
    /\ size_check = "unset"
    /\ err = NoErr
    /\ run_result = Placeholder
    /\ rj_outcome = "running"
    /\ gen_pc = "idle"
    /\ gen_kind = "gen"
    /\ produced = <<>>
    /\ producer_end = "none"
    /\ emitted = <<>>
    /\ finished_log = 0
    /\ asked = 0
    /\ gen_outcome = "running"
    /\ job_list = {}
    /\ held = {}
    /\ gj_pc = [t \in Tasks |-> "idle"]
    /\ retry = [t \in Tasks |-> TRUE]
    /\ polls = [t \in Tasks |-> 0]
    /\ request = [t \in Tasks |-> ""]
    /\ sent = [t \in Tasks |-> <<>>]
    /\ response = [t \in Tasks |-> NoResponse]
    /\ next_job = [t \in Tasks |-> PyNone]
    /\ gj_outcome = [t \in Tasks |-> "running"]
    /\ gj_return = [t \in Tasks |-> NoValue]

GetJobNext ==
    \/ \E t \in Tasks : GetJobCall(t)
    \/ \E t \in Tasks : GetJobRequest(t)
    \/ \E t \in Tasks : GetJobTransportFails(t)
    \/ \E t \in Tasks : GetJobNoContent(t)
    \/ \E t \in Tasks : GetJobOk(t)
    \/ \E t \in Tasks : GetJobJsonFails(t)
    \/ \E t \in Tasks : GetJobBody(t)
    \/ \E t \in Tasks : GetJobReturned(t)
    \/ \E i \in JobIds : ExternalRemove(i)

----------------------------------------------------------------------------
(* Properties of get_job *)

\* the latest request of task t failed in session.get or in response.json()
ExceptionResponse(r) == r.kind \in {"get_error", "json_error"}

\* the latest response is a 200 whose body is not a key-value record
NonRecordResponse(r) == r.kind = "body" /\ ~IsDict(r.body) /\ r.body # PyNone

\* the latest response is a 200 whose body is a record without a usable id
\* or input
MalformedResponse(r) ==
    /\ r.kind = "body"
    /\ IsDict(r.body)
    /\ \/ "id" \notin DOMAIN r.body.d
       \/ "input" \notin DOMAIN r.body.d
       \/ r.body.d["id"] = PyNone
       \/ r.body.d["input"] = PyNone

\* the latest request ended in a transient outcome: a status other than 200
\* or an exception
TransientResponse(r) ==
    \/ r.kind = "status" /\ r.status # 200
    \/ ExceptionResponse(r)

\* task t has just resumed from one of its two suspension points
Resumed(t) == gj_pc[t] \in {"await_get", "await_json"} /\ gj_pc'[t] # gj_pc[t]

\* the poll is treated as retryable: the loop continues under retry, None is
\* returned otherwise
Retryable(t) ==
    IF retry[t]
    THEN gj_pc[t] = "poll"
    ELSE gj_pc[t] = "done" /\ gj_outcome[t] = "returned" /\ gj_return[t] = PyNone

\* C2: get_job never propagates an exception: after a transport failure, a
\* body that fails to parse, or a 200 body that is not a key-value record,
\* the call polls again (retry) or has returned None (no retry).
C2_NeverPropagates ==
    \A t \in Tasks :
        /\ gj_outcome[t] # "raised"
        /\ (ExceptionResponse(response[t]) \/ NonRecordResponse(response[t])
               => Retryable(t))

\* C3 as stated: a 200 body missing id or input is never returned as a Job,
\* adds nothing to the tracker, and the call continues polling.
C3_AsStated ==
    [][\A t \in Tasks :
          Resumed(t) /\ MalformedResponse(response'[t]) =>
              /\ gj_return'[t] # response'[t].body
              /\ job_list' = job_list
              /\ gj_pc'[t] = "poll"]_vars

\* C3 amended: a 200 body missing id or input is never returned as a Job and
\* adds nothing to the tracker; the call continues polling when retry is
\* true and returns None when retry is false.
C3_MalformedDiscarded ==
    [][\A t \in Tasks :
          Resumed(t) /\ MalformedResponse(response'[t]) =>
              /\ gj_return'[t] # response'[t].body
              /\ job_list' = job_list
              /\ IF retry[t]
                 THEN gj_pc'[t] = "poll"
                 ELSE /\ gj_pc'[t] = "done"
                      /\ gj_outcome'[t] = "returned"
                      /\ gj_return'[t] = PyNone]_vars

\* C3 witness: a retrying call received a record with an id but no usable
\* input, tracked nothing and is polling again
C3_Witness ==
    \E t \in Tasks :
        /\ MalformedResponse(response[t])
        /\ "id" \in DOMAIN response[t].body.d
        /\ retry[t]
        /\ gj_pc[t] = "poll"
        /\ job_list = {}

\* C4: when get_job returns a Job its id is in the tracked set at that
\* moment, so the busy signal is true; and an id leaves the tracked set only
\* by an external removal of that id.
C4_ReturnedJobTracked ==
    [][/\ \A t \in Tasks :
             Resumed(t) /\ gj_outcome'[t] = "returned" /\ gj_return'[t] # PyNone =>
                 /\ gj_return'[t].d["id"] \in job_list'
                 /\ JobInProgress(job_list') = "1"
       /\ \A i \in job_list : i \notin job_list' => ExternalRemove(i)]_vars

\* C4 witness: a call has returned a Job whose id is tracked, while another
\* job is tracked too
C4_Witness ==
    \E t \in Tasks :
        /\ gj_pc[t] = "done"
        /\ gj_return[t] \in ValidBodies
        /\ gj_return[t].d["id"] \in job_list
        /\ Cardinality(job_list) = 2

\* C5: get_job(retry=false) issues exactly one request and returns None at
\* once when that request ends in 204, 400, another non-200 status or a
\* transport or parsing exception; it never goes back to polling.
C5_NoRetrySinglePoll ==
    \A t \in Tasks :
        ~retry[t] =>
            /\ polls[t] <= 1
            /\ (TransientResponse(response[t]) =>
                   /\ gj_pc[t] = "done"
                   /\ polls[t] = 1
                   /\ gj_outcome[t] = "returned"
                   /\ gj_return[t] = PyNone)

\* C5 witness: a call with retry=false received 204 on its only request and
\* returned None
C5_Witness ==
    \E t \in Tasks :
        /\ ~retry[t]
        /\ response[t] = Response("status", 204, NoValue)
        /\ gj_pc[t] = "done"
        /\ polls[t] = 1
        /\ gj_return[t] = PyNone

\* task t has just built and issued a request (lines 51-53)
Issued(t) == gj_pc[t] = "poll" /\ gj_pc'[t] = "await_get"

\* C12: every poll request, on the first and on every later iteration and
\* whatever other tasks and external removals did in between, carries
\* job_in_progress "1" if the tracked set is non-empty when the request is
\* built and "0" otherwise.
C12_FlagPerRequest ==
    [][\A t \in Tasks :
          Issued(t) =>
              /\ request'[t] = (IF job_list # {} THEN "1" ELSE "0")
              /\ sent'[t] = Append(sent[t], request'[t])]_vars

\* C12 witness: one call sent "0" on its first request and "1" on its second,
\* another task having acquired a job in between
C12_Witness ==
    \E t \in Tasks :
        /\ sent[t] = <<"0", "1">>
        /\ request[t] = "1"
        /\ job_list # {}

\* the latest response is a 200 whose body holds id and input, neither null
ValidResponse(r) == r.kind = "body" /\ r.body \in ValidBodies

\* C13: get_job(retry=true) never returns None: each time it resumes with a
\* 204, a 400, another non-200 status, an exception or a malformed body it
\* goes back to polling, and when it resumes with a valid Job it returns
\* exactly that Job in the same step (lines 72-103 hold no suspension point).
C13_RetryUntilJob ==
    [][\A t \in Tasks :
          retry[t] /\ Resumed(t) =>
              /\ ~(gj_outcome'[t] = "returned" /\ gj_return'[t] = PyNone)
              /\ (TransientResponse(response'[t]) \/ MalformedResponse(response'[t])
                     => gj_pc'[t] = "poll" /\ gj_outcome'[t] = "running")
              /\ (ValidResponse(response'[t])
                     => /\ gj_pc'[t] = "done"
                        /\ gj_outcome'[t] = "returned"
                        /\ gj_return'[t] = response'[t].body)]_vars

\* C13 witness: a retrying call whose first request brought no job polled
\* again and returned the valid Job its second request brought
C13_Witness ==
    \E t \in Tasks :
        /\ retry[t]
        /\ polls[t] = 2
        /\ ValidResponse(response[t])
        /\ gj_outcome[t] = "returned"
        /\ gj_return[t] = response[t].body

\* C17: with several get_job calls interleaving at their suspension points,
\* no tracker update is lost: the tracked set always contains the id of every
\* Job returned by any task and not yet externally removed.
C17_NoLostUpdate == held \subseteq job_list

\* C17 witness: both tasks have returned, with different Jobs, from calls
\* that were in progress at the same time, and both ids are tracked
C17_Witness ==
    /\ \A t \in Tasks : gj_pc[t] = "done" /\ gj_return[t] \in ValidBodies
    /\ gj_return["t1"] # gj_return["t2"]
    /\ held = JobIds
    /\ job_list = JobIds

\* in this step task t returned a Job from get_job
ReturnsJob(t) ==
    Resumed(t) /\ gj_outcome'[t] = "returned" /\ gj_return'[t] # PyNone

\* this step belongs to the get_job call of task t
StepOf(t) == gj_pc'[t] # gj_pc[t]

\* C18: a get_job call changes the tracked set at most once, in the step in
\* which it returns a Job and only by adding that Job's id; every other step
\* of the call, among them every iteration ending in 204, 400, another
\* non-200 status, an exception or a malformed body, and the return of None,
\* leaves the tracked set unchanged.
C18_SingleAdd ==
    [][\A t \in Tasks :
          StepOf(t) =>
              IF ReturnsJob(t)
              THEN /\ job_list' = job_list \cup {gj_return'[t].d["id"]}
                   /\ gj_pc'[t] = "done"
              ELSE job_list' = job_list]_vars

\* C18 witness: a call whose first iteration brought no job returned a Job on
\* its second; the tracker, empty at both requests, holds that Job's id only
C18_Witness ==
    \E t \in Tasks :
        /\ sent[t] = <<"0", "0">>
        /\ gj_pc[t] = "done"
        /\ gj_return[t] \in ValidBodies
        /\ job_list = {gj_return[t].d["id"]}

----------------------------------------------------------------------------
(* run_job_generator *)

\* the most partial values one producer yields in the model
MaxPartials == 3

\* the partial values a producer may yield
Partials == {Val("int", "1"), PyDict(EmptyMap)}

\* lines 173, 176: the envelope of one partial
OutputEnvelope(partial) == ("output" :> partial)

\* line 179: f"handler: {str(err)} \ntraceback: {traceback.format_exc()}"
HandlerErrorText(e) ==
    [kind |-> "str", s |-> "handler",
     d |-> [message |-> PyStr(e.msg), traceback |-> Val("traceback", e.type)]]

\* line 179: the envelope of a failure
StreamErrorEnvelope(e) == ("error" :> HandlerErrorText(e))

\* a variant of line 177 with a narrower clause: except ValueError
StreamCatchesValueError(e) == e.type = "ValueError"

\* line 177: except Exception
StreamCatches(e) == e.base = "Exception"

\* a variant without the finally block of lines 180-181
FinishWithoutLog(outcome) ==
    /\ gen_outcome' = outcome
    /\ gen_pc' = "finished"
    /\ UNCHANGED finished_log

\* lines 180-181, then the end of the generator: StopAsyncIteration reaches
\* the consumer, or the exception e when the except clause did not catch it
Finish(outcome) ==
    /\ finished_log' = finished_log + 1
    /\ gen_outcome' = outcome
    /\ gen_pc' = "finished"

\* lines 177-179: e is raised inside the try block; the error envelope is
\* yielded and the generator is suspended there
Failed(e) ==
    IF StreamCatches(e)
    THEN /\ emitted' = Append(emitted, StreamErrorEnvelope(e))
         /\ gen_pc' = "at_error_yield"
         /\ UNCHANGED <<finished_log, gen_outcome>>
    ELSE /\ Finish("raised")
         /\ UNCHANGED emitted

\* a variant of lines 172-176 that takes two partials from the producer
\* before yielding the envelope of the first
ItemOutcomePrefetch ==
    /\ Len(produced) + 2 <= MaxPartials
    /\ \E first \in Partials, second \in Partials :
          /\ produced' = produced \o <<first, second>>
          /\ emitted' = Append(emitted, OutputEnvelope(first))
    /\ gen_pc' = "at_output_yield"
    /\ UNCHANGED <<producer_end, finished_log, gen_outcome>>

\* lines 172-176: the producer answers the request for its next item: a
\* partial, which is yielded in its envelope at once; an exception; or the
\* end of the iteration
ItemOutcome ==
    \/ /\ Len(produced) < MaxPartials
       /\ \E partial \in Partials :
             /\ produced' = Append(produced, partial)
             /\ emitted' = Append(emitted, OutputEnvelope(partial))
       /\ gen_pc' = "at_output_yield"
       /\ UNCHANGED <<producer_end, finished_log, gen_outcome>>
    \/ /\ \E e \in HandlerExceptions : Failed(e)
       /\ producer_end' = "raised"
       /\ UNCHANGED produced
    \/ /\ producer_end' = "exhausted"
       /\ Finish("exhausted")
       /\ UNCHANGED <<produced, emitted>>

\* lines 171-176: the next item is requested from the producer; an async
\* producer suspends the generator until the item arrives
RequestItem ==
    IF gen_kind = "asyncgen"
    THEN /\ gen_pc' = "await_item"
         /\ UNCHANGED <<produced, producer_end, emitted, finished_log, gen_outcome>>
    ELSE ItemOutcome

\* lines 162-168: run_job_generator(handler, job) is called; nothing of its
\* body runs before the consumer asks for the first envelope
GenCall ==
    /\ gen_pc = "idle"
    /\ gen_kind' \in {"gen", "asyncgen"}
    /\ gen_pc' = "created"
    /\ produced' = <<>>
    /\ producer_end' = "none"
    /\ emitted' = <<>>
    /\ finished_log' = 0
    /\ asked' = 0
    /\ gen_outcome' = "running"
    /\ UNCHANGED <<rjVars, gjVars, clVars>>

\* lines 169-170, 177-179: the consumer asks for the first envelope and
\* handler(job) raises
GenHandlerCallRaises ==
    /\ gen_pc = "created"
    /\ \E e \in HandlerExceptions : Failed(e)
    /\ producer_end' = "call_raised"
    /\ asked' = asked + 1
    /\ UNCHANGED <<gen_kind, produced, rjVars, gjVars, clVars>>

\* lines 169-176: the consumer asks for the first envelope and handler(job)
\* returns the producer
GenStart ==
    /\ gen_pc = "created"
    /\ RequestItem
    /\ asked' = asked + 1
    /\ UNCHANGED <<gen_kind, rjVars, gjVars, clVars>>

\* lines 172-176: the consumer asks for the next envelope after an output
GenContinue ==
    /\ gen_pc = "at_output_yield"
    /\ RequestItem
    /\ asked' = asked + 1
    /\ UNCHANGED <<gen_kind, rjVars, gjVars, clVars>>

\* line 172: the awaited item of an async producer arrives
GenItemArrives ==
    /\ gen_pc = "await_item"
    /\ ItemOutcome
    /\ UNCHANGED <<gen_kind, asked, rjVars, gjVars, clVars>>

\* lines 179-181: the consumer asks for the next envelope after the error
GenAfterError ==
    /\ gen_pc = "at_error_yield"
    /\ Finish("exhausted")
    /\ asked' = asked + 1
    /\ UNCHANGED <<gen_kind, produced, producer_end, emitted, rjVars, gjVars, clVars>>

\* the consumer is done with the finished generator
GenDropped ==
    /\ gen_pc = "finished"
    /\ gen_pc' = "idle"
    /\ gen_kind' = "gen"
    /\ produced' = <<>>
    /\ producer_end' = "none"
    /\ emitted' = <<>>
    /\ finished_log' = 0
    /\ asked' = 0
    /\ gen_outcome' = "running"
    /\ UNCHANGED <<rjVars, gjVars, clVars>>

GenNext ==
    \/ GenCall
    \/ GenHandlerCallRaises
    \/ GenStart
    \/ GenContinue
    \/ GenItemArrives
    \/ GenAfterError
    \/ GenDropped

----------------------------------------------------------------------------
(* Properties of run_job_generator *)

\* the output envelopes of the partials produced so far, in order
OutputsOf(partials) == [i \in 1..Len(partials) |-> ("output" :> partials[i])]

\* an envelope holding only an error text
IsErrorOnly(envelope) == DOMAIN envelope = {"error"} /\ envelope["error"].kind = "str"

Advanced ==
    \/ produced' # produced /\ produced' # <<>>
    \/ producer_end' \in {"raised", "exhausted"} /\ producer_end = "none"

\* C14: run_job_generator is lazy, with at most one item in flight: when the
\* producer is advanced the envelope of every earlier partial has already
\* been handed to the consumer, at most one partial is taken, and the
\* producer has been advanced no more often than the consumer has asked for
\* an envelope.
C14_Lazy ==
    [][/\ Advanced =>
             /\ emitted = OutputsOf(produced)
             /\ gen_pc \in {"created", "at_output_yield", "await_item"}
             /\ Len(produced') <= Len(produced) + 1
       /\ Len(produced') + (IF producer_end' \in {"raised", "exhausted"} THEN 1 ELSE 0)
             <= asked'
       /\ Len(emitted') <= asked']_vars

\* C14 witness: the consumer holds the envelope of the second partial of an
\* async producer and has asked twice; no third partial has been taken
C14_Witness ==
    /\ gen_kind = "asyncgen"
    /\ gen_pc = "at_output_yield"
    /\ asked = 2
    /\ Len(produced) = 2
    /\ Len(emitted) = 2
    /\ producer_end = "none"

\* C15: in every run of run_job_generator, whether the producer is
\* exhausted, raises part-way or the handler call itself raises, 'Finished' is
\* logged exactly once: not before the run ends, once when it ends, in a step
\* that emits nothing, and no envelope is emitted afterwards.
C15_FinishedOnce ==
    [][/\ (gen_pc' = "finished" => finished_log' = 1 /\ producer_end' # "none")
       /\ (gen_pc' # "finished" => finished_log' = 0)
       /\ (finished_log' # finished_log /\ gen_pc' = "finished" =>
              /\ emitted' = emitted
              /\ Len(emitted) = Len(produced)
                     + (IF producer_end' \in {"raised", "call_raised"} THEN 1 ELSE 0))
       /\ (finished_log = 1 => emitted' = emitted \/ gen_pc' = "idle")]_vars

\* C15 witness: the handler call itself raised; the error envelope was
\* emitted and then 'Finished' was logged once
C15_Witness ==
    /\ gen_pc = "finished"
    /\ producer_end = "call_raised"
    /\ Len(emitted) = 1
    /\ IsErrorOnly(emitted[1])
    /\ finished_log = 1
    /\ asked = 2

----------------------------------------------------------------------------
(* Specifications *)

\* calls of run_job, under every environment
InitRunJob == Start(Environments, {NoFiles})

SpecRunJob == InitRunJob /\ [][RunJobNext]_vars

\* concurrent calls of get_job and external removals
InitGetJob == Start({EmptyMap}, {NoFiles})

SpecGetJob == InitGetJob /\ [][GetJobNext]_vars

InitGenerator == Start({EmptyMap}, {NoFiles})

InitClean == Start({EmptyMap}, Filesystems)

\* calls of clean from every state of the working directory
SpecClean == InitClean /\ [][CleanNext]_vars

\* iterations of run_job_generator by one consumer
SpecGenerator == InitGenerator /\ [][GenNext]_vars

\* the executors are between calls
ExecutorsIdle == rj_pc = "idle" /\ gen_pc = "idle"

\* no get_job call is in progress
SourceIdle == \A t \in Tasks : gj_pc[t] = "idle"

\* one worker: jobs are acquired (by concurrent get_job tasks) and marked
\* complete while no executor runs; a held job is then executed by run_job
\* or by run_job_generator, one at a time
MayAcquire == ExecutorsIdle

MayRun == SourceIdle /\ gen_pc = "idle" /\ job_list # {}

MayStream == SourceIdle /\ rj_pc = "idle" /\ job_list # {}

WorkerNext ==
    \/ \E t \in Tasks : MayAcquire /\ GetJobCall(t)
    \/ \E t \in Tasks : MayAcquire /\ GetJobRequest(t)
    \/ \E t \in Tasks : MayAcquire /\ GetJobTransportFails(t)
    \/ \E t \in Tasks : MayAcquire /\ GetJobNoContent(t)
    \/ \E t \in Tasks : MayAcquire /\ GetJobOk(t)
    \/ \E t \in Tasks : MayAcquire /\ GetJobJsonFails(t)
    \/ \E t \in Tasks : MayAcquire /\ GetJobBody(t)
    \/ \E t \in Tasks : MayAcquire /\ GetJobReturned(t)
    \/ \E i \in JobIds : MayAcquire /\ ExternalRemove(i)
    \/ MayRun /\ RunJobHandlerRaises
    \/ MayRun /\ RunJobHandlerReturns
    \/ MayRun /\ RunJobHandlerReturnsAwaitable
    \/ MayRun /\ RunJobAwaitResolves
    \/ MayRun /\ RunJobAwaitFails
    \/ MayRun /\ RunJobReturned
    \/ MayStream /\ GenCall
    \/ MayStream /\ GenHandlerCallRaises
    \/ MayStream /\ GenStart
    \/ MayStream /\ GenContinue
    \/ MayStream /\ GenItemArrives
    \/ MayStream /\ GenAfterError
    \/ MayStream /\ GenDropped

InitWorker == Start({EmptyMap}, {NoFiles})

\* acquisition, execution and completion of jobs by one worker
SpecWorker == InitWorker /\ [][WorkerNext]_vars

----------------------------------------------------------------------------
(* Properties of the worker *)

\* this step belongs to run_job or to run_job_generator
ExecutorStep == rjVars' # rjVars \/ genVars' # genVars

\* C16: every step of run_job and of run_job_generator, whatever the outcome,
\* leaves the tracked set as it is; the set grows only in a step in which
\* get_job returns a Job, and then by that Job's id; an id leaves the set only
\* by an external removal.
C16_ExecutorsLeaveTracker ==
    [][/\ (ExecutorStep => job_list' = job_list)
       /\ (\E i \in job_list' : i \notin job_list) =>
              \E t \in Tasks :
                  /\ ReturnsJob(t)
                  /\ job_list' = job_list \cup {gj_return'[t].d["id"]}
       /\ \A i \in job_list : i \notin job_list' => ExternalRemove(i)]_vars

\* C16 witness: with two jobs tracked, run_job has returned the envelope of a
\* captured exception
C16_Witness ==
    /\ job_list = JobIds
    /\ rj_pc = "done"
    /\ rj_outcome = "returned"
    /\ err # NoErr
    /\ DOMAIN run_result = {"error"}

=========================================================================
